---------------------------- MODULE Spec2Model ----------------------------
(***************************************************************************)
(* Model of helpers/timeout_helper.py: the rate_limit helper and the       *)
(* caller loop of its docstring.                                           *)
(*                                                                         *)
(* Time is counted in whole seconds.  The float division 60.0 / R is       *)
(* modelled exactly, on the rates R for which the quotient is a whole      *)
(* number of seconds (the divisors of 60, of either sign) and on R = 0,    *)
(* where Python raises ZeroDivisionError.  time.time() is the variable     *)
(* clock, which never goes backwards; time.sleep(d) blocks the caller      *)
(* until the clock has advanced by at least d.  Every line of the function *)
(* is one step, so the clock may advance, and another caller may run,      *)
(* between any two lines.                                                  *)
(***************************************************************************)
EXTENDS Integers, Sequences, FiniteSets

\* ------------------------------------------------------------- bounds
\* Largest clock value the model explores.
MaxTime == 3
\* Largest last_request_time a caller may start its loop with.
MaxStart == 5
\* Largest |max_requests_per_minute| explored.
MaxRate == 60
\* Calls of rate_limit each caller makes at most.
MaxCalls == 3
\* ---------------------------------------------------- program constants
\* The numerator of line 25: 60.0 seconds per minute.
Minute == 60

\* The caller loops: one alone, or two running concurrently.
Callers == {1, 2}

Abs(x) == IF x < 0 THEN -x ELSE x

\* The rates on which the model is exact, and 0.
Rates == {r \in (-MaxRate)..MaxRate : r = 0 \/ Minute % Abs(r) = 0}

VARIABLES
    clock,      \* time.time()
    R,          \* the rate ceiling every caller passes (the literal of line 22)
    last_time,  \* last_time[c]: the caller's loop variable (lines 20, 22)
    pc,         \* pc[c]: where caller c is
    frame,      \* frame[c]: the arguments and locals of c's running call
    calls       \* calls[c]: the calls c has completed, oldest first

vars == <<clock, R, last_time, pc, frame, calls>>

\* The frame of a call before line 25 has run.
NewFrame(r, t0) ==
    [max_requests_per_minute |-> r, last_request_time |-> t0,
     min_interval |-> 0, now |-> 0, elapsed |-> 0,
     sleeps |-> 0, slept |-> 0, wake |-> 0, exit |-> 0, ret |-> 0,
     exc |-> "none"]

\* What a completed call is remembered by: its arguments, the clock reading
\* of line 26, the sleeps it made and the value it returned.
Outcome(f) ==
    [max_requests_per_minute |-> f.max_requests_per_minute,
     last_request_time |-> f.last_request_time,
     now |-> f.now, sleeps |-> f.sleeps, slept |-> f.slept,
     exit |-> f.exit, ret |-> f.ret]

\* ------------------------------------------------- the function's lines
\* Line 25: 60.0 / max_requests_per_minute, for r # 0.
MinInterval(r) == IF r > 0 THEN Minute \div r ELSE -(Minute \div (-r))

\* Mutation: the previous timestamp is kept in a module-level variable, which
\* every caller's return overwrites, and the argument is used only before
\* the first return.
MutElapsedGlobal(now, t0) ==
    LET rets == UNION {{calls[c][i].ret : i \in 1..Len(calls[c])} : c \in Callers}
    IN  IF rets = {} THEN now - t0
        ELSE now - (CHOOSE m \in rets : \A x \in rets : x <= m)

\* Line 26: time.time() - last_request_time.
Elapsed(now, t0) == now - t0

\* Mutation: the comparison is turned round.
MutMustWaitInverted(elapsed, min_interval) == elapsed > min_interval

\* Mutation: <= for <.
MutMustWaitOrEqual(elapsed, min_interval) == elapsed <= min_interval

\* Line 28: the test that decides whether to sleep.
MustWait(elapsed, min_interval) == elapsed < min_interval

\* Mutation: the whole interval is slept, whatever has elapsed.
MutSleepForWhole(min_interval, elapsed) == min_interval

\* Mutation: the elapsed time is added instead of subtracted.
MutSleepForPlus(min_interval, elapsed) == min_interval + elapsed

\* Mutation: the operands are swapped.
MutSleepForSwapped(min_interval, elapsed) == elapsed - min_interval

\* Line 29: the argument given to time.sleep.
SleepFor(min_interval, elapsed) == min_interval - elapsed

\* Mutation: the clock reading of line 26 is returned, not a fresh one.
MutReturnedEntry(f, t) == f.now

\* Line 31: the value returned, given the clock reading on exit.
Returned(f, t) == t

\* ------------------------------------------------------------- actions
\* The caller enters rate_limit(R, last_time) (line 22, the call) and line 25
\* runs: min_interval = 60.0 / max_requests_per_minute, which raises
\* ZeroDivisionError when the divisor is 0.
Line25(c) ==
    /\ pc[c] = "idle"
    /\ Len(calls[c]) < MaxCalls
    /\ LET f == NewFrame(R, last_time[c]) IN
       IF f.max_requests_per_minute = 0
       THEN /\ frame' = [frame EXCEPT ![c] =
                  [f EXCEPT !.exc = "ZeroDivisionError"]]
            /\ pc' = [pc EXCEPT ![c] = "raised"]
       ELSE /\ frame' = [frame EXCEPT ![c] =
                  [f EXCEPT !.min_interval = MinInterval(f.max_requests_per_minute)]]
            /\ pc' = [pc EXCEPT ![c] = "l26"]
    /\ UNCHANGED <<clock, R, last_time, calls>>

\* Line 26: elapsed = time.time() - last_request_time.
Line26(c) ==
    /\ pc[c] = "l26"
    /\ frame' = [frame EXCEPT ![c].now = clock,
                              ![c].elapsed = Elapsed(clock, frame[c].last_request_time)]
    /\ pc' = [pc EXCEPT ![c] = "l28"]
    /\ UNCHANGED <<clock, R, last_time, calls>>

\* Line 28: if elapsed < min_interval.
Line28(c) ==
    /\ pc[c] = "l28"
    /\ pc' = [pc EXCEPT ![c] =
                 IF MustWait(frame[c].elapsed, frame[c].min_interval)
                 THEN "l29" ELSE "l31"]
    /\ UNCHANGED <<clock, R, last_time, frame, calls>>

\* Line 29: time.sleep(min_interval - elapsed) starts.  time.sleep raises
\* ValueError on a negative argument.
Line29(c) ==
    /\ pc[c] = "l29"
    /\ LET d == SleepFor(frame[c].min_interval, frame[c].elapsed) IN
       /\ frame' = [frame EXCEPT ![c].sleeps = @ + 1,
                                 ![c].slept = d,
                                 ![c].wake = clock + d,
                                 ![c].exc = IF d < 0 THEN "ValueError" ELSE "none"]
       /\ pc' = [pc EXCEPT ![c] = IF d < 0 THEN "raised" ELSE "sleeping"]
    /\ UNCHANGED <<clock, R, last_time, calls>>

\* Line 29: time.sleep returns, once at least the asked duration has passed.
Wake(c) ==
    /\ pc[c] = "sleeping"
    /\ clock >= frame[c].wake
    /\ pc' = [pc EXCEPT ![c] = "l31"]
    /\ UNCHANGED <<clock, R, last_time, frame, calls>>

\* Mutation: the rate is validated on the way out, after the sleep.
MutLine31LateCheck(c) ==
    /\ pc[c] = "l31"
    /\ IF frame[c].max_requests_per_minute <= 0
       THEN /\ frame' = [frame EXCEPT ![c].exc = "ValueError"]
            /\ pc' = [pc EXCEPT ![c] = "raised"]
            /\ UNCHANGED calls
       ELSE /\ frame' = [frame EXCEPT ![c].exit = clock, ![c].ret = clock]
            /\ calls' = [calls EXCEPT ![c] =
                   Append(@, Outcome([frame[c] EXCEPT !.exit = clock, !.ret = clock]))]
            /\ pc' = [pc EXCEPT ![c] = "returned"]
    /\ UNCHANGED <<clock, R, last_time>>

\* Line 31: return time.time().
Line31(c) ==
    /\ pc[c] = "l31"
    /\ LET f == [frame[c] EXCEPT !.exit = clock,
                                 !.ret = Returned(frame[c], clock)] IN
       /\ frame' = [frame EXCEPT ![c] = f]
       /\ calls' = [calls EXCEPT ![c] = Append(@, Outcome(f))]
    /\ pc' = [pc EXCEPT ![c] = "returned"]
    /\ UNCHANGED <<clock, R, last_time>>

\* Line 22: last_time = <the returned value>, and the loop goes round.
Assign(c) ==
    /\ pc[c] = "returned"
    /\ last_time' = [last_time EXCEPT ![c] = frame[c].ret]
    /\ frame' = [frame EXCEPT ![c] = NewFrame(0, 0)]
    /\ pc' = [pc EXCEPT ![c] = "idle"]
    /\ UNCHANGED <<clock, R, calls>>

\* The clock advances.
Tick ==
    /\ clock < MaxTime
    /\ clock' = clock + 1
    /\ UNCHANGED <<R, last_time, pc, frame, calls>>

Step(c) ==
    \/ Line25(c)
    \/ Line26(c)
    \/ Line28(c)
    \/ Line29(c)
    \/ Wake(c)
    \/ Line31(c)
    \/ Assign(c)

Next == Tick \/ \E c \in Callers : Step(c)

\* One caller, any rate, any starting last_request_time.
Init ==
    /\ clock = 0
    /\ R \in Rates
    /\ \E t0 \in 0..MaxStart :
          last_time = [c \in Callers |-> IF c = 1 THEN t0 ELSE 0]
    /\ pc = [c \in Callers |-> IF c = 1 THEN "idle" ELSE "off"]
    /\ frame = [c \in Callers |-> NewFrame(0, 0)]
    /\ calls = [c \in Callers |-> <<>>]

Spec == Init /\ [][Next]_vars

\* Every caller runs the loop of the docstring (last_time = 0, line 20)
\* against the same positive rate, each with a last_time of its own.
InitLoops ==
    /\ clock = 0
    /\ R \in {r \in Rates : r > 0}
    /\ last_time = [c \in Callers |-> 0]
    /\ pc = [c \in Callers |-> "idle"]
    /\ frame = [c \in Callers |-> NewFrame(0, 0)]
    /\ calls = [c \in Callers |-> <<>>]

SpecLoops == InitLoops /\ [][Next]_vars

\* ---------------------------------------------------------- the claims
\* The calls that have returned.
Completed == UNION {{calls[c][i] : i \in 1..Len(calls[c])} : c \in Callers}

\* The callers whose running call has carried out the decision of line 28:
\* time.sleep has been called, or line 31 has been reached without it.
PastLine29 ==
    {c \in Callers : \/ pc[c] \in {"sleeping", "l31"}
                     \/ pc[c] = "raised" /\ frame[c].exc = "ValueError"}

\* The calls, returned or running, in which that decision has been carried out.
Decided == Completed \cup {Outcome(frame[c]) : c \in PastLine29}

\* now - last_request_time < 60 / max_requests_per_minute, for a positive
\* rate, stated without the division.
Early(k) ==
    (k.now - k.last_request_time) * k.max_requests_per_minute < Minute

\* C1: in a loop that starts with last_request_time = 0 and feeds every
\* returned timestamp back in, against a positive rate R, consecutive returns
\* are at least 60/R apart, and the n-th return is at least (n-1) * 60/R
\* after the first.
C1_LoopSpacing ==
    \A c \in Callers :
        (R > 0 /\ calls[c] # <<>> /\ calls[c][1].last_request_time = 0) =>
            /\ \A i \in 1..(Len(calls[c]) - 1) :
                  /\ calls[c][i + 1].last_request_time = calls[c][i].ret
                  /\ (calls[c][i + 1].ret - calls[c][i].ret) * R >= Minute
            /\ \A n \in 2..Len(calls[c]) :
                  (calls[c][n].ret - calls[c][1].ret) * R >= (n - 1) * Minute

\* A loop started at 0 has returned three times.
C1_Witness ==
    /\ R > 0
    /\ Len(calls[1]) >= 3
    /\ calls[1][1].last_request_time = 0

\* C2: for a positive rate and now - t0 < 60/R at line 26, time.sleep is called
\* exactly once, with 60/R - (now - t0), and the value returned is at least
\* t0 + 60/R.
C2_WaitBranch ==
    /\ \A k \in Decided :
          (k.max_requests_per_minute > 0 /\ Early(k)) =>
              /\ k.sleeps = 1
              /\ k.slept * k.max_requests_per_minute
                    = Minute - (k.now - k.last_request_time) * k.max_requests_per_minute
    /\ \A k \in Completed :
          (k.max_requests_per_minute > 0 /\ Early(k)) =>
              k.ret * k.max_requests_per_minute
                  >= k.last_request_time * k.max_requests_per_minute + Minute

\* A call that found part of the interval already elapsed has slept and returned.
C2_Witness ==
    \E k \in Completed :
        /\ k.max_requests_per_minute > 0
        /\ k.now > k.last_request_time
        /\ Early(k)
        /\ k.sleeps = 1

\* C3: for a positive rate and now - t0 >= 60/R at line 26, time.sleep is never
\* called and the value returned is at least now.
C3_NoWaitBranch ==
    /\ \A k \in Decided :
          (k.max_requests_per_minute > 0 /\ ~Early(k)) => k.sleeps = 0
    /\ \A c \in Callers :
          (pc[c] = "l29" /\ frame[c].max_requests_per_minute > 0) =>
              Early(frame[c])
    /\ \A k \in Completed :
          (k.max_requests_per_minute > 0 /\ ~Early(k)) => k.ret >= k.now

\* A call made a full interval or more after last_request_time has returned.
C3_Witness ==
    \E k \in Completed :
        /\ k.max_requests_per_minute > 0
        /\ k.last_request_time > 0
        /\ ~Early(k)

\* C4: a call with last_request_time = 0 and a positive rate never sleeps,
\* whatever the clock reads.
C4_FirstCallNeverSleeps ==
    \A k \in Decided :
        (k.max_requests_per_minute > 0 /\ k.last_request_time = 0) => k.sleeps = 0

\* C5: no call with max_requests_per_minute <= 0 returns a timestamp.
C5_NonPositiveRateFails ==
    \A k \in Completed : k.max_requests_per_minute > 0

\* C6: a call that fails on a non-positive rate has not called time.sleep.
C6_ErrorBeforeSleep ==
    \A c \in Callers :
        (pc[c] = "raised" /\ frame[c].max_requests_per_minute <= 0) =>
            frame[c].sleeps = 0

\* A call has failed on a non-positive rate.
C6_Witness ==
    \E c \in Callers :
        /\ pc[c] = "raised"
        /\ frame[c].max_requests_per_minute <= 0
        /\ frame[c].exc = "ZeroDivisionError"

\* C7 as stated: for a positive rate and any last_request_time >= 0, later than
\* the clock or not, time.sleep is asked for at most 60/R.
C7_SleepAtMostInterval ==
    \A k \in Decided :
        (k.max_requests_per_minute > 0 /\ k.last_request_time >= 0 /\ k.sleeps >= 1) =>
            k.slept * k.max_requests_per_minute <= Minute

\* C7 as amended: for a positive rate and 0 <= last_request_time <= now (the
\* reading of line 26), time.sleep is asked for at most 60/R.
C7_SleepAtMostIntervalPast ==
    \A k \in Decided :
        (/\ k.max_requests_per_minute > 0
         /\ k.last_request_time >= 0
         /\ k.last_request_time <= k.now
         /\ k.sleeps >= 1) =>
            k.slept * k.max_requests_per_minute <= Minute

\* A call with a positive rate and a last_request_time in the past has slept.
C7_Witness ==
    \E k \in Decided :
        /\ k.max_requests_per_minute > 0
        /\ k.last_request_time > 0
        /\ k.last_request_time < k.now
        /\ k.sleeps >= 1

\* C8: with two loops running concurrently against the same rate, the
\* consecutive returns of each caller are at least 60/R apart under every
\* interleaving.
C8_OwnSpacing ==
    \A c \in Callers :
        \A i \in 1..(Len(calls[c]) - 1) :
            (calls[c][i + 1].ret - calls[c][i].ret) * R >= Minute

\* Both callers have returned twice or more, and two returns of different
\* callers are less than 60/R apart.
C8_Witness ==
    /\ Len(calls[1]) >= 2
    /\ Len(calls[2]) >= 2
    /\ \E i \in 1..Len(calls[1]), j \in 1..Len(calls[2]) :
          Abs(calls[1][i].ret - calls[2][j].ret) * R < Minute

\* C9: whether a call sleeps and for how long is fixed by its arguments and the
\* clock reading of line 26, whatever calls came before; what it returns is
\* the clock reading of line 31; and while the call runs the caller's rate and
\* last_time are the values it passed.
C9_Stateless ==
    /\ \A a, b \in Decided :
          (/\ a.max_requests_per_minute = b.max_requests_per_minute
           /\ a.last_request_time = b.last_request_time
           /\ a.now = b.now) =>
              (a.sleeps = b.sleeps /\ a.slept = b.slept)
    /\ \A k \in Completed : k.ret = k.exit
    /\ \A c \in Callers :
          pc[c] \in {"l26", "l28", "l29", "sleeping", "l31", "returned", "raised"} =>
              /\ frame[c].max_requests_per_minute = R
              /\ frame[c].last_request_time = last_time[c]

\* The second caller made, after the first caller's call had returned, a call
\* with the same arguments at the same clock reading, and both have returned.
C9_Witness ==
    /\ calls[1] # <<>>
    /\ calls[2] # <<>>
    /\ calls[1][1].last_request_time = calls[2][1].last_request_time
    /\ calls[1][1].now = calls[2][1].now
    /\ calls[1][1].exit <= calls[2][1].now

\* C10: for a rate other than 0, a call calls time.sleep at most once, and
\* always with a duration greater than 0.
C10_SleepOncePositive ==
    \A k \in Decided :
        k.max_requests_per_minute # 0 =>
            /\ k.sleeps <= 1
            /\ (k.sleeps >= 1 => k.slept > 0)

\* A call with a negative rate has called time.sleep.
C10_Witness ==
    /\ R < 0
    /\ \E k \in Decided : k.sleeps = 1

=============================================================================
